---- MODULE Spec2Model ----
(***************************************************************************)
(* Model of the person / place extraction service:                         *)
(*   PersonEntityExtractor (entity_extraction/person_entity_extraction.py) *)
(*   and its request / response models (http_models).                      *)
(*                                                                         *)
(* A Python dict is insertion ordered, so a dict is modelled as a sequence *)
(* of records [key, value] in insertion order.  A character span is the    *)
(* pair <<first, second>> the code stores.                                 *)
(***************************************************************************)
EXTENDS Integers, Sequences, FiniteSets, TLC

\* ------------------------------------------------------------------ bounds
MaxTokens == 3
MaxRankTokens == 4
MaxReqTokens == 3
MaxWindow == 2
MaxRuns == 2

\* lookup_location_by passed by get_all_people_details
LookupLocationBy == 100

\* ------------------------------------------------------- the NLP document
\* A token of the external pipeline: len is len(token.text), ws is the length
\* of token.whitespace_ (a single trailing blank, or none).
TokenShapes == { [len |-> 1, ws |-> 0], [len |-> 2, ws |-> 0], [len |-> 2, ws |-> 1] }
WordShapes == { [len |-> 2, ws |-> 1] }

PersonNames == {"Alice", "Bob"}
PlaceNames == {"Paris", "Rome"}
OtherNames == {"Acme"}

\* entity.label_ of the entity whose surface text is name
LabelOf(name) ==
    IF name \in PersonNames THEN "PERSON"
    ELSE IF name \in PlaceNames THEN "GPE" ELSE "ORG"

\* A tagging gives every token "O" (outside), "I" (second token of the entity
\* begun by the token before) or the name of the entity it begins.
Taggings(n, names) ==
    { t \in [1..n -> names \cup {"O", "I"}] :
        \A i \in 1..n : t[i] = "I" => (i > 1 /\ t[i-1] \in names) }

RECURSIVE EntsOf(_, _)
\* spacy_doc.ents: the entities of a tagging in document order, each with the
\* indices of its first and last token.
EntsOf(t, i) ==
    IF i > Len(t) THEN << >>
    ELSE IF t[i] \in {"O", "I"} THEN EntsOf(t, i + 1)
    ELSE << [label |-> LabelOf(t[i]), text |-> t[i], first |-> i,
             last |-> IF i < Len(t) /\ t[i+1] = "I" THEN i + 1 ELSE i] >>
         \o EntsOf(t, i + 1)

\* The documents the NLP pipeline can hand over: up to n tokens of the given
\* shapes, entities named from names.
Docs(n, shapes, names) ==
    UNION { { [tokens |-> toks, ents |-> EntsOf(t, 1)] :
                toks \in [1..k -> shapes], t \in Taggings(k, names) } : k \in 0..n }

RECURSIVE TokenIdx(_, _)
\* token.idx: the character offset at which token i starts in the text.
TokenIdx(tokens, i) ==
    IF i <= 1 THEN 0
    ELSE TokenIdx(tokens, i - 1) + tokens[i-1].len + tokens[i-1].ws

\* entity.start_char / entity.end_char: the entity's text starts with its first
\* token and ends with the text of its last token (trailing blank excluded).
StartChar(doc, e) == TokenIdx(doc.tokens, e.first)
EndChar(doc, e) == TokenIdx(doc.tokens, e.last) + doc.tokens[e.last].len

\* ------------------------------------------------------ Python containers
\* seq[k] with Python's 0-based index, a negative k counting from the end.
PyIndex(seq, k) == IF k >= 0 THEN seq[k + 1] ELSE seq[Len(seq) + k + 1]

\* k in d, d[k] and d[k] = v for an insertion-ordered dict: assigning to a key
\* that is present keeps its position, a new key goes last.
HasKey(d, k) == \E i \in 1..Len(d) : d[i].key = k
Get(d, k) == d[CHOOSE i \in 1..Len(d) : d[i].key = k].value
Put(d, k, v) ==
    IF HasKey(d, k)
    THEN [i \in 1..Len(d) |-> IF d[i].key = k THEN [key |-> k, value |-> v] ELSE d[i]]
    ELSE Append(d, [key |-> k, value |-> v])
Keys(d) == { d[i].key : i \in 1..Len(d) }

\* ------------------------------------------------------- get_all_tokens
RECURSIVE TokenSpansFrom(_, _, _)
TokenSpansFrom(tokens, i, prev_span) ==
    IF i > Len(tokens) THEN << >>
    ELSE LET end_span == prev_span + tokens[i].len + tokens[i].ws
         IN  << <<prev_span + 1, end_span>> >> \o TokenSpansFrom(tokens, i + 1, end_span)

get_all_tokens(spacy_doc) == TokenSpansFrom(spacy_doc.tokens, 1, -1)

\* ------------------------------------- extract_person_location_entities
\* variant: a repeated mention replaces the mention list
AddPerson_Overwrite(people, text, span) == Put(people, text, [spans |-> << span >>])

AddPerson(people, text, span) ==
    IF ~HasKey(people, text)
    THEN Put(people, text, [spans |-> << span >>])
    ELSE Put(people, text, [Get(people, text) EXCEPT !.spans = Append(@, span)])

AddLocation(locations, text, span) ==
    IF ~HasKey(locations, text)
    THEN Put(locations, text, << span >>)
    ELSE Put(locations, text, Append(Get(locations, text), span))

RECURSIVE ExtractFrom(_, _, _, _)
\* the loop over spacy_doc.ents; the result is <<location_dict, people_dict>>
ExtractFrom(spacy_doc, i, people, locations) ==
    IF i > Len(spacy_doc.ents) THEN <<locations, people>>
    ELSE LET entity == spacy_doc.ents[i]
             span == <<StartChar(spacy_doc, entity), EndChar(spacy_doc, entity)>>
         IN  IF entity.label = "PERSON"
             THEN ExtractFrom(spacy_doc, i + 1, AddPerson(people, entity.text, span), locations)
             ELSE IF entity.label = "GPE"
             THEN ExtractFrom(spacy_doc, i + 1, people, AddLocation(locations, entity.text, span))
             ELSE ExtractFrom(spacy_doc, i + 1, people, locations)

extract_person_location_entities(spacy_doc) == ExtractFrom(spacy_doc, 1, << >>, << >>)

\* ------------------------------------- accumulate_locations_near_person
\* variant: no clamp at the first token, the index wraps round the list
SearchStartAt_Wrap(token_spans, i, lookup) ==
    token_spans[((i - lookup) % Len(token_spans)) + 1][1]

\* i is the 0-based index enumerate() gives the token that starts where the
\* mention starts.
SearchStartAt(token_spans, i, lookup) ==
    IF i - lookup < 0 THEN 0 ELSE PyIndex(token_spans, i - lookup)[1]

\* variant: no clamp at the last token, the index wraps round the list
SearchEndAt_Wrap(token_spans, i, lookup) ==
    token_spans[((i + lookup) % Len(token_spans)) + 1][2]

\* i is the 0-based index of the token that ends where the mention ends.
SearchEndAt(token_spans, i, lookup) ==
    IF i + lookup >= Len(token_spans)
    THEN PyIndex(token_spans, -1)[2]
    ELSE PyIndex(token_spans, i + lookup)[2]

RECURSIVE TokenLoop(_, _, _, _, _, _)
\* the loop over enumerate(token_spans) from the k-th token on (k is 1-based),
\* with the break once both bounds are set; the result is
\* <<search_start_span, search_end_span>>
TokenLoop(token_spans, person_span, lookup, k, search_start_span, search_end_span) ==
    IF k > Len(token_spans) THEN <<search_start_span, search_end_span>>
    ELSE LET token == token_spans[k]
             s == IF search_start_span < 0 /\ token[1] = person_span[1]
                  THEN SearchStartAt(token_spans, k - 1, lookup)
                  ELSE search_start_span
             e == IF search_end_span < 0 /\ token[2] = person_span[2]
                  THEN SearchEndAt(token_spans, k - 1, lookup)
                  ELSE search_end_span
         IN  IF s >= 0 /\ e > 0 THEN <<s, e>>
             ELSE TokenLoop(token_spans, person_span, lookup, k + 1, s, e)

\* <<search_start_span, search_end_span>> of one person mention
SearchSpan(token_spans, person_span, lookup) ==
    TokenLoop(token_spans, person_span, lookup, 1,
              IF person_span[1] = 0 THEN 0 ELSE -1, -1)

\* search_start_span <= loc_span[0] < search_end_span
InSearchSpan(search, loc_span) == search[1] <= loc_span[1] /\ loc_span[1] < search[2]

\* variant: the count is set to 1 whether or not the entry exists
CountLocation_NoIncrement(value, loc) ==
    [spans |-> value.spans,
     location |-> Put(IF "location" \in DOMAIN value THEN value.location ELSE << >>, loc, 1)]

\* people_dict[person]['location'][loc] is created at 1 or incremented
CountLocation(value, loc) ==
    LET withmap == IF "location" \notin DOMAIN value
                   THEN [spans |-> value.spans, location |-> << >>]
                   ELSE value
    IN  IF ~HasKey(withmap.location, loc)
        THEN [withmap EXCEPT !.location = Put(@, loc, 1)]
        ELSE [withmap EXCEPT !.location = Put(@, loc, Get(@, loc) + 1)]

RECURSIVE LocSpanLoop(_, _, _, _, _)
\* for loc_span in loc_span_list, from the j-th span on
LocSpanLoop(value, loc, loc_span_list, j, search) ==
    IF j > Len(loc_span_list) THEN value
    ELSE LocSpanLoop(IF InSearchSpan(search, loc_span_list[j])
                     THEN CountLocation(value, loc) ELSE value,
                     loc, loc_span_list, j + 1, search)

RECURSIVE LocationLoop(_, _, _, _)
\* for loc, loc_span_list in location_dict.items(), from the l-th entry on
LocationLoop(value, location_dict, l, search) ==
    IF l > Len(location_dict) THEN value
    ELSE LocationLoop(LocSpanLoop(value, location_dict[l].key, location_dict[l].value, 1, search),
                      location_dict, l + 1, search)

RECURSIVE PersonSpanLoop(_, _, _, _, _, _)
\* for person_span in spans['spans'], from the m-th mention on.  spans is the
\* mention list the loop iterates; value is people_dict[person] as updated.
PersonSpanLoop(value, spans, m, location_dict, token_spans, lookup) ==
    IF m > Len(spans) THEN value
    ELSE PersonSpanLoop(
             LocationLoop(value, location_dict, 1, SearchSpan(token_spans, spans[m], lookup)),
             spans, m + 1, location_dict, token_spans, lookup)

\* for person, spans in people_dict.items(): the keys are not changed, each
\* value is updated in place
accumulate_locations_near_person(people_dict, location_dict, token_spans, lookup) ==
    [p \in 1..Len(people_dict) |->
        [key |-> people_dict[p].key,
         value |-> PersonSpanLoop(people_dict[p].value, people_dict[p].value.spans, 1,
                                  location_dict, token_spans, lookup)]]

\* ------------------------------------------- get_people_places_details
\* variant: x goes before the elements of equal count
InsertByCount_Unstable(sorted, x) ==
    LET k == Cardinality({ i \in 1..Len(sorted) : sorted[i].count > x.count })
    IN  SubSeq(sorted, 1, k) \o << x >> \o SubSeq(sorted, k + 1, Len(sorted))

\* x goes after every element whose count is not smaller: sorted(...,
\* key=count, reverse=True) is stable, equal counts keep their input order.
InsertByCount(sorted, x) ==
    LET k == Cardinality({ i \in 1..Len(sorted) : sorted[i].count >= x.count })
    IN  SubSeq(sorted, 1, k) \o << x >> \o SubSeq(sorted, k + 1, Len(sorted))

RECURSIVE SortLoop(_, _, _)
SortLoop(list, i, sorted) ==
    IF i > Len(list) THEN sorted
    ELSE SortLoop(list, i + 1, InsertByCount(sorted, list[i]))

SortedByCountDesc(list) == SortLoop(list, 1, << >>)

\* place_detail_list of one person
PlaceDetailList(value) ==
    IF "location" \in DOMAIN value
    THEN SortedByCountDesc([l \in 1..Len(value.location) |->
             [name |-> value.location[l].key, count |-> value.location[l].value]])
    ELSE << >>

PersonDetails(item) ==
    [name |-> item.key, count |-> Len(item.value.spans),
     associated_places |-> PlaceDetailList(item.value)]

PeopleDetailsList(people) ==
    SortedByCountDesc([p \in 1..Len(people) |-> PersonDetails(people[p])])

\* ---------------------------------------------- get_all_people_details
\* CommonResponse(status_code=500, ...): status_code is declared str
ErrorEnvelope ==
    [kind |-> "CommonResponse",
     body |-> [status_code |-> "500", message |-> "Error while fetching text from url"]]

\* variant: only the declared fields of the request are kept
ResponseDict_DeclaredOnly(req, people_loc_list) ==
    [f \in {"url", "people"} |-> IF f = "people" THEN people_loc_list ELSE req[f]]

\* response_dict = person_info_request.dict(); response_dict['people'] = ...
ResponseDict(req, people_loc_list) ==
    [f \in DOMAIN req \cup {"people"} |-> IF f = "people" THEN people_loc_list ELSE req[f]]

\* --------------------------------------------------------------- requests
TestUrl == "https://www.gutenberg.org/cache/epub/345/pg345.txt"
TestRequest == [url |-> TestUrl, author |-> "Bram Stoker", title |-> "Dracula"]
Requests ==
    { TestRequest,
      [url |-> TestUrl],
      [url |-> TestUrl, people |-> << >>],
      [url |-> TestUrl, author |-> "Bram Stoker",
       people |-> << [name |-> "Eve", count |-> 7, associated_places |-> << >>] >>] }
NoRequest == [f \in {} |-> ""]

Entries == {"get_all_people_details", "get_people_places_details",
            "accumulate_locations_near_person"}

\* ------------------------------------------------------------------ state
VARIABLES
    pc,                  \* position of the call in progress
    entry,               \* the method the caller entered
    request,             \* person_info_request
    page,                \* the document behind the url, as the NLP analyses it
    lookup_location_by,
    token_spans,
    location_dict,
    people_dict,
    runs,                \* calls of accumulate_locations_near_person so far
    outputs,             \* what each of those calls returned
    people_details_list,
    response             \* what the caller of get_all_people_details gets

vars == <<pc, entry, request, page, lookup_location_by, token_spans, location_dict,
          people_dict, runs, outputs, people_details_list, response>>

InitWith(reqs, docs) ==
    /\ pc = "start"
    /\ entry \in Entries
    /\ request \in (IF entry = "get_all_people_details" THEN reqs ELSE {NoRequest})
    /\ page \in docs
    /\ lookup_location_by = 0
    /\ token_spans = << >>
    /\ location_dict = << >>
    /\ people_dict = << >>
    /\ runs = 0
    /\ outputs = << >>
    /\ people_details_list = << >>
    /\ response = [kind |-> "none"]

Init == InitWith({TestRequest}, Docs(MaxTokens, TokenShapes, {"Alice", "Paris"}))
InitRank == InitWith({TestRequest}, Docs(MaxRankTokens, WordShapes, PersonNames \cup PlaceNames))
InitRequest ==
    InitWith(Requests, Docs(MaxReqTokens, WordShapes, PersonNames \cup PlaceNames \cup OtherNames))

core == <<token_spans, location_dict, people_dict, runs, outputs, people_details_list>>

\* fetch_text_from_url: requests.get answers 200
FetchOk ==
    /\ pc = "start" /\ entry = "get_all_people_details"
    /\ pc' = "core"
    /\ lookup_location_by' = LookupLocationBy
    /\ UNCHANGED <<entry, request, page, core, response>>

\* fetch_text_from_url: requests.get answers with another status
FetchNot200 ==
    /\ pc = "start" /\ entry = "get_all_people_details"
    /\ pc' = "done"
    /\ response' = ErrorEnvelope
    /\ UNCHANGED <<entry, request, page, lookup_location_by, core>>

\* fetch_text_from_url: requests.get raises (no connection, invalid url);
\* nothing catches it, it leaves get_all_people_details
FetchRaises ==
    /\ pc = "start" /\ entry = "get_all_people_details"
    /\ pc' = "raised"
    /\ response' = [kind |-> "exception"]
    /\ UNCHANGED <<entry, request, page, lookup_location_by, core>>

\* a direct call of get_people_places_details(doc_text, lookup_location_by), or
\* of the static helpers with a window of the caller's choice
CallWithWindow ==
    /\ pc = "start" /\ entry # "get_all_people_details"
    /\ \E w \in 0..MaxWindow : lookup_location_by' = w
    /\ pc' = "core"
    /\ UNCHANGED <<entry, request, page, core, response>>

\* spacy_doc = self.nlp(doc_text); get_all_tokens; extract_person_location_entities
Analyse ==
    /\ pc = "core"
    /\ pc' = "extracted"
    /\ token_spans' = get_all_tokens(page)
    /\ location_dict' = extract_person_location_entities(page)[1]
    /\ people_dict' = extract_person_location_entities(page)[2]
    /\ UNCHANGED <<entry, request, page, lookup_location_by, runs, outputs,
                   people_details_list, response>>

\* accumulate_locations_near_person(people_dict, location_dict, token_spans,
\* lookup_location_by): people_dict is updated in place and returned.  A caller
\* of the static method may call it again with the same arguments.
Accumulate ==
    /\ \/ pc = "extracted"
       \/ pc = "accumulated" /\ entry = "accumulate_locations_near_person" /\ runs < MaxRuns
    /\ pc' = "accumulated"
    /\ people_dict' = accumulate_locations_near_person(people_dict, location_dict,
                                                       token_spans, lookup_location_by)
    /\ runs' = runs + 1
    /\ outputs' = Append(outputs, people_dict')
    /\ UNCHANGED <<entry, request, page, lookup_location_by, token_spans, location_dict,
                   people_details_list, response>>

\* the rest of get_people_places_details: the sorted list it returns
Rank ==
    /\ pc = "accumulated" /\ entry # "accumulate_locations_near_person"
    /\ pc' = "ranked"
    /\ people_details_list' = PeopleDetailsList(people_dict)
    /\ UNCHANGED <<entry, request, page, lookup_location_by, token_spans, location_dict,
                   people_dict, runs, outputs, response>>

\* the rest of get_all_people_details
Respond ==
    /\ pc = "ranked" /\ entry = "get_all_people_details"
    /\ pc' = "done"
    /\ response' = [kind |-> "PersonInfoResponse",
                    body |-> ResponseDict(request, people_details_list)]
    /\ UNCHANGED <<entry, request, page, lookup_location_by, core>>

Next ==
    \/ FetchOk
    \/ FetchNot200
    \/ FetchRaises
    \/ CallWithWindow
    \/ Analyse
    \/ Accumulate
    \/ Rank
    \/ Respond

Spec == Init /\ [][Next]_vars
SpecRank == InitRank /\ [][Next]_vars
SpecRequest == InitRequest /\ [][Next]_vars

\* ============================================================== properties
Max(a, b) == IF a >= b THEN a ELSE b
Min(a, b) == IF a <= b THEN a ELSE b

\* people_dict[person]['location'] has an entry for loc
HasEntry(value, loc) == "location" \in DOMAIN value /\ HasKey(value.location, loc)
StoredCount(value, loc) == IF HasEntry(value, loc) THEN Get(value.location, loc) ELSE 0

\* the pairs (mention m of the person, mention l of the location) with
\* search_start(m) <= start(l) < search_end(m)
WindowPairs(spans, loc_spans, lookup) ==
    { pr \in (1..Len(spans)) \X (1..Len(loc_spans)) :
        LET search == SearchSpan(token_spans, spans[pr[1]], lookup)
        IN  search[1] <= loc_spans[pr[2]][1] /\ loc_spans[pr[2]][1] < search[2] }

FirstRunDone == pc = "accumulated" /\ runs = 1

\* C1: after accumulate_locations_near_person on a freshly built persons
\* mapping, the count stored for location L under person P is the number of
\* pairs (mention of P, mention of L) with the location's start inside the
\* mention's search span; a location with no such pair has no entry, and no
\* entry holds a count below 1.
C1_CountIsNumberOfPairs ==
    FirstRunDone =>
        \A p \in 1..Len(people_dict) :
            LET value == people_dict[p].value
            IN  /\ \A l \in 1..Len(location_dict) :
                     LET n == Cardinality(WindowPairs(value.spans, location_dict[l].value,
                                                      lookup_location_by))
                         loc == location_dict[l].key
                     IN  IF n = 0 THEN ~HasEntry(value, loc)
                         ELSE HasEntry(value, loc) /\ Get(value.location, loc) = n
                /\ "location" \in DOMAIN value =>
                     /\ Keys(value.location) \subseteq Keys(location_dict)
                     /\ \A k \in 1..Len(value.location) : value.location[k].value >= 1

\* one location mention lies in the search spans of two mentions of one person
\* and is stored with count 2
C1_Witness ==
    /\ FirstRunDone
    /\ \E p \in 1..Len(people_dict), l \in 1..Len(location_dict) :
         /\ Len(people_dict[p].value.spans) = 2
         /\ Len(location_dict[l].value) = 1
         /\ StoredCount(people_dict[p].value, location_dict[l].key) = 2

\* ----------------------------------------------------------------- C2, C3
Returned == pc \in {"ranked", "done"} /\ response.kind # "CommonResponse"

\* the PERSON mentions the entity source produced for surface text name
MentionsOf(name) ==
    { i \in 1..Len(page.ents) : page.ents[i].label = "PERSON" /\ page.ents[i].text = name }
PersonTexts == { page.ents[i].text : i \in { j \in 1..Len(page.ents) : page.ents[j].label = "PERSON" } }

\* some location mention starts inside the search span of some mention of the
\* person whose people_dict value is given
SomeLocationNear(value) ==
    \E l \in 1..Len(location_dict) :
        WindowPairs(value.spans, location_dict[l].value, lookup_location_by) # {}

\* C2: the ranked output holds exactly one entry per distinct person surface
\* text, its count is the number of mentions of that text the entity source
\* produced, and a person with no location in any of its windows appears with
\* an empty associated_places.
C2_OneEntryPerPersonWithMentionCount ==
    Returned =>
        /\ { people_details_list[i].name : i \in 1..Len(people_details_list) } = PersonTexts
        /\ Len(people_details_list) = Cardinality(PersonTexts)
        /\ \A i \in 1..Len(people_details_list) :
             /\ people_details_list[i].count = Cardinality(MentionsOf(people_details_list[i].name))
             /\ ~SomeLocationNear(Get(people_dict, people_details_list[i].name))
                   => people_details_list[i].associated_places = << >>

\* a person mentioned twice with no location near, in a document that does
\* mention a location
C2_Witness ==
    /\ Returned
    /\ \E i \in 1..Len(people_details_list) :
         /\ people_details_list[i].count = 2
         /\ people_details_list[i].associated_places = << >>
    /\ Len(location_dict) > 0

\* index of the first mention of a surface text in the document
FirstMention(name) ==
    CHOOSE i \in 1..Len(page.ents) :
        /\ page.ents[i].text = name
        /\ \A j \in 1..(i - 1) : page.ents[j].text # name

\* position at which loc was inserted into the person's location map
InsertedAt(value, loc) == CHOOSE k \in 1..Len(value.location) : value.location[k].key = loc

\* C3: people are in non-increasing order of count, people of equal count in
\* the order of their first mention; each person's associated_places are in
\* non-increasing order of count, places of equal count in the order in which
\* they were first inserted into that person's location map.
C3_RankedOrder ==
    Returned =>
        /\ \A i, j \in 1..Len(people_details_list) : i < j =>
             /\ people_details_list[i].count >= people_details_list[j].count
             /\ people_details_list[i].count = people_details_list[j].count
                  => FirstMention(people_details_list[i].name)
                       < FirstMention(people_details_list[j].name)
        /\ \A p \in 1..Len(people_details_list) :
             LET places == people_details_list[p].associated_places
                 value == Get(people_dict, people_details_list[p].name)
             IN  \A i, j \in 1..Len(places) : i < j =>
                   /\ places[i].count >= places[j].count
                   /\ places[i].count = places[j].count
                        => InsertedAt(value, places[i].name) < InsertedAt(value, places[j].name)

\* two people of equal count, and a person with two places of equal count
C3_Witness ==
    /\ Returned
    /\ \E i, j \in 1..Len(people_details_list) :
         i < j /\ people_details_list[i].count = people_details_list[j].count
    /\ \E p \in 1..Len(people_details_list) :
         LET places == people_details_list[p].associated_places
         IN  Len(places) = 2 /\ places[1].count = places[2].count

\* ----------------------------------------------------------------- C4, C5
Succeeded == pc = "done" /\ response.kind = "PersonInfoResponse"

\* C4 as stated: on a successful fetch the response holds every field of the
\* request, whatever its name, with the value the caller sent, plus the field
\* people holding the ranked list.
C4_EveryFieldEchoed ==
    Succeeded =>
        /\ DOMAIN response.body = DOMAIN request \cup {"people"}
        /\ \A f \in DOMAIN request : response.body[f] = request[f]
        /\ response.body["people"] = people_details_list

\* C4 (amended): on a successful fetch the response holds every field of the
\* request other than one named people with the value the caller sent, and
\* the field people holds the ranked list, replacing a people field of the
\* request; no other field is added or dropped.
C4_FieldsOtherThanPeopleEchoed ==
    Succeeded =>
        /\ DOMAIN response.body = DOMAIN request \cup {"people"}
        /\ \A f \in DOMAIN request \ {"people"} : response.body[f] = request[f]
        /\ response.body["people"] = people_details_list

\* a request with a metadata field and a people field of its own, answered
\* with a non-empty ranked list
C4_Witness ==
    /\ Succeeded
    /\ {"author", "people"} \subseteq DOMAIN request
    /\ Len(people_details_list) > 0
    /\ response.body["author"] = "Bram Stoker"

\* C5: whenever the fetch does not succeed, get_all_people_details hands the
\* caller the error envelope (status_code, message), not an exception, and the
\* aggregation core has not been invoked.
C5_FailureIsEnvelope ==
    (entry = "get_all_people_details" /\ pc \in {"done", "raised"}
        /\ response.kind # "PersonInfoResponse")
      => /\ response.kind = "CommonResponse"
         /\ DOMAIN response.body = {"status_code", "message"}
         /\ runs = 0 /\ token_spans = << >> /\ people_details_list = << >>

\* -------------------------------------------------------------------- C6
Windows == 0..(MaxWindow + 1) \cup {LookupLocationBy}

\* the location mentions <<location, mention index>> counted for one person
\* mention at window w
CountedFor(person_span, w) ==
    { lm \in UNION { { <<l, k>> : k \in 1..Len(location_dict[l].value) } :
                     l \in 1..Len(location_dict) } :
        InSearchSpan(SearchSpan(token_spans, person_span, w),
                     location_dict[lm[1]].value[lm[2]]) }

Inputs == pc = "extracted"

\* C6: for window sizes w < w2 the location mentions counted for a person
\* mention at w are among those counted at w2, and no (person, location)
\* co-occurrence count of the aggregation at w exceeds its count at w2.
C6_WindowMonotonic ==
    Inputs =>
        \A w \in Windows, w2 \in Windows : w < w2 =>
            LET at1 == accumulate_locations_near_person(people_dict, location_dict, token_spans, w)
                at2 == accumulate_locations_near_person(people_dict, location_dict, token_spans, w2)
            IN  \A p \in 1..Len(people_dict) :
                  /\ \A m \in 1..Len(people_dict[p].value.spans) :
                       CountedFor(people_dict[p].value.spans[m], w)
                           \subseteq CountedFor(people_dict[p].value.spans[m], w2)
                  /\ \A l \in 1..Len(location_dict) :
                       StoredCount(at1[p].value, location_dict[l].key)
                           <= StoredCount(at2[p].value, location_dict[l].key)

\* a count that grows from window 0 to window 1 and again to window 2
C6_Witness ==
    /\ Inputs
    /\ \E p \in 1..Len(people_dict), l \in 1..Len(location_dict) :
         LET n(w) == StoredCount(
                 accumulate_locations_near_person(people_dict, location_dict, token_spans, w)[p].value,
                 location_dict[l].key)
         IN  n(0) < n(1) /\ n(1) < n(2)

\* -------------------------------------------------------------------- C7
\* C7: a second run of accumulate_locations_near_person on the same (tokens,
\* persons, locations, window) returns what the first run returned.
C7_SecondRunSameOutput ==
    \A i \in 1..Len(outputs) : outputs[i] = outputs[1]

\* ------------------------------------------------------------ C8, C9, C10
LastToken == Len(token_spans)

\* the pairs (mention e of person, mention g of place) of the document with
\* the first token of g among the tokens from w before the first token of e
\* to w after its last token
TokenWindowPairs(person, place, w) ==
    { pr \in (1..Len(page.ents)) \X (1..Len(page.ents)) :
        LET e == page.ents[pr[1]]
            g == page.ents[pr[2]]
        IN  /\ e.label = "PERSON" /\ e.text = person
            /\ g.label = "GPE" /\ g.text = place
            /\ Max(1, e.first - w) <= g.first
            /\ g.first <= Min(Len(page.tokens), e.last + w) }

\* C8: a location mention is counted for a person mention occupying tokens
\* lo_idx..hi_idx exactly when its first token has an index from
\* max(0, lo_idx - W) to min(last_token_index, hi_idx + W): the stored count
\* of a place under a person is the number of such pairs, and there is an
\* entry exactly when there is such a pair.
C8_CountedIffInTokenWindow ==
    FirstRunDone =>
        \A p \in 1..Len(people_dict), l \in 1..Len(location_dict) :
            LET n == Cardinality(TokenWindowPairs(people_dict[p].key, location_dict[l].key,
                                                  lookup_location_by))
            IN  /\ HasEntry(people_dict[p].value, location_dict[l].key) <=> n > 0
                /\ StoredCount(people_dict[p].value, location_dict[l].key) = n

\* the tokens that start where the span starts / end where the span ends
StartsAt(span) == { k \in 1..LastToken : token_spans[k][1] = span[1] }
EndsAt(span) == { k \in 1..LastToken : token_spans[k][2] = span[2] }

Accumulated == pc = "accumulated"

\* C9: for a person mention that starts where token lo starts and ends where
\* token hi ends, search_start is the start of token max(0, lo - W) and
\* search_end the end of token min(last_token_index, hi + W); a mention that
\* starts at offset 0 has search_start 0.
C9_SearchSpanClamped ==
    Accumulated =>
        \A p \in 1..Len(people_dict) : \A m \in 1..Len(people_dict[p].value.spans) :
            LET span == people_dict[p].value.spans[m]
                search == SearchSpan(token_spans, span, lookup_location_by)
            IN  /\ \A lo \in StartsAt(span), hi \in EndsAt(span) :
                     /\ search[1] = token_spans[Max(1, lo - lookup_location_by)][1]
                     /\ search[2] = token_spans[Min(LastToken, hi + lookup_location_by)][2]
                /\ span[1] = 0 => search[1] = 0

\* a mention whose lower bound is an inner token and whose upper bound is
\* clamped to the last token
C9_Witness ==
    /\ Accumulated
    /\ lookup_location_by >= 1
    /\ \E p \in 1..Len(people_dict) : \E m \in 1..Len(people_dict[p].value.spans) :
         LET span == people_dict[p].value.spans[m]
         IN  \E lo \in StartsAt(span), hi \in EndsAt(span) :
               /\ lo - lookup_location_by > 1
               /\ hi + lookup_location_by > LastToken
               /\ SearchSpan(token_spans, span, lookup_location_by)[1] > 0

\* C10: a mention no token starts at has the start of the document as lower
\* edge, a mention no token ends at has the end of the last token as upper
\* edge, and every location mention from the resolved lower edge on is then
\* counted for it.
C10_FallbackToDocumentEdge ==
    FirstRunDone =>
        \A p \in 1..Len(people_dict) : \A m \in 1..Len(people_dict[p].value.spans) :
            LET span == people_dict[p].value.spans[m]
                search == SearchSpan(token_spans, span, lookup_location_by)
            IN  /\ StartsAt(span) = {} => search[1] <= 0
                /\ EndsAt(span) = {} =>
                     /\ search[2] = token_spans[LastToken][2]
                     /\ \A l \in 1..Len(location_dict) :
                          (\E k \in 1..Len(location_dict[l].value) :
                               search[1] <= location_dict[l].value[k][1])
                            => HasEntry(people_dict[p].value, location_dict[l].key)

====
